---- MODULE Spec2Model ----
\* A model of aml_tests/run.py: the s-expression parser (Sxpr.parse), the
\* renderer (Sxpr.__str__), the typed comparator (compare_object and its
\* dispatch table), the sequence verifier (verify) and the harness script
\* that drives them.
\*
\* Text is a sequence of one-character strings.  A field of a node is one of
\*   [k |-> "sx",  id, fn, args]   an Sxpr object (id is its object identity)
\*   [k |-> "str", v]              a Python str
\*   [k |-> "int", v]              a Python int (unbounded)
\* A Python call either returns a value or raises; the outcome of a call is
\* a record whose exc field is "None" or the name of the exception type.
EXTENDS Integers, Sequences, FiniteSets, TLC

\* ------------------------------------------------------------------
\* Characters (str.isspace, str.isalpha, str.isdigit, str.lower)
\* ------------------------------------------------------------------

UpperCase == <<"A","B","C","D","E","F","G","H","I","J","K","L","M",
               "N","O","P","Q","R","S","T","U","V","W","X","Y","Z">>

LowerCase == <<"a","b","c","d","e","f","g","h","i","j","k","l","m",
               "n","o","p","q","r","s","t","u","v","w","x","y","z">>

DigitChars == <<"0","1","2","3","4","5","6","7","8","9",
                "a","b","c","d","e","f">>

Range(f) == {f[x] : x \in DOMAIN f}

Whitespace == {" ", "\t", "\n", "\r"}

Letters == Range(UpperCase) \cup Range(LowerCase)

\* '0123456789abcdef'[:base], as a set
BaseDigits == [base \in {2, 10, 16} |-> {DigitChars[d] : d \in 1..base}]

\* the lower-case letter of each upper-case letter
ToLower == [c \in Range(UpperCase) |->
               LowerCase[CHOOSE j \in DOMAIN UpperCase : UpperCase[j] = c]]

isspace(c) == c \in Whitespace

isalpha(c) == c \in Letters

isdigit(c) == c \in BaseDigits[10]

lower(c) == IF c \in DOMAIN ToLower THEN ToLower[c] ELSE c

\* InBase with the fault of leaving out lower(): an upper-case digit is no
\* digit
InBase_cased(c, base) == c \in BaseDigits[base]

\* c.lower() in '0123456789abcdef'[:base]
InBase(c, base) == lower(c) \in BaseDigits[base]

\* int(c.lower(), base) for a character that is a digit of the base
DigitValue(c) == (CHOOSE d \in DOMAIN DigitChars : DigitChars[d] = lower(c)) - 1

\* ------------------------------------------------------------------
\* Sxpr objects
\* ------------------------------------------------------------------

\* Sxpr.__init__: a new object, distinct from every object made before
Sxpr(fn, id) == [k |-> "sx", id |-> id, fn |-> fn, args |-> <<>>]

StrField(x) == [k |-> "str", v |-> x]

IntField(x) == [k |-> "int", v |-> x]

Raised(e) == [exc |-> e, res |-> <<>>, nid |-> 0]

Returned(res, nid) == [exc |-> "None", res |-> res, nid |-> nid]

\* the tags that COMPARISON_TABLE has an entry for

uninitialized_ == <<"u","n","i","n","i","t","i","a","l","i","z","e","d">>

integer_ == <<"i","n","t","e","g","e","r">>

string_ == <<"s","t","r","i","n","g">>

buffer_ == <<"b","u","f","f","e","r">>

string_index_ == <<"s","t","r","i","n","g","_","i","n","d","e","x">>

buffer_index_ == <<"b","u","f","f","e","r","_","i","n","d","e","x">>

package_index_ == <<"p","a","c","k","a","g","e","_","i","n","d","e","x">>

package_ == <<"p","a","c","k","a","g","e">>

\* ------------------------------------------------------------------
\* Sxpr.parse
\* ------------------------------------------------------------------

\* stack[-1].args.append(x), for a non-empty stack
AppendArg(stack, x) == [stack EXCEPT ![Len(stack)].args = Append(@, x)]

RECURSIVE ScanTag(_, _)
\* while s[i].isalpha() or s[i] == '_': the index the loop stops at; an index
\* past the end of s means the read s[i] raised IndexError
ScanTag(s, i) ==
    IF i > Len(s) THEN i
    ELSE IF isalpha(s[i]) \/ s[i] = "_" THEN ScanTag(s, i + 1)
    ELSE i

RECURSIVE ScanString(_, _)
\* while s[i] != '"': the index of the closing quote, or past the end
ScanString(s, i) ==
    IF i > Len(s) THEN i
    ELSE IF s[i] # "\"" THEN ScanString(s, i + 1)
    ELSE i

RECURSIVE ScanDigits(_, _, _, _)
\* while s[i].lower() in digits[:base]: x = x * base + int(s[i].lower(), base)
\* yields the stopping index and x
ScanDigits(s, i, base, x) ==
    IF i > Len(s) THEN [i |-> i, x |-> x]
    ELSE IF InBase(s[i], base)
         THEN ScanDigits(s, i + 1, base, x * base + DigitValue(s[i]))
    ELSE [i |-> i, x |-> x]

\* the base-prefix lookahead of an integer literal starting at s[i], s[i] a
\* digit: the base, the index of the first digit, and whether s[i + 1] was
\* read past the end
IntPrefix(s, i) ==
    IF s[i] = "0"
    THEN IF i + 1 > Len(s) THEN [base |-> 10, i |-> i, eof |-> TRUE]
         ELSE IF isdigit(s[i + 1]) THEN [base |-> 10, i |-> i, eof |-> FALSE]
         ELSE IF s[i + 1] = "x" THEN [base |-> 16, i |-> i + 2, eof |-> FALSE]
         ELSE IF s[i + 1] = "b" THEN [base |-> 2, i |-> i + 2, eof |-> FALSE]
         ELSE [base |-> 10, i |-> i, eof |-> FALSE]
    ELSE [base |-> 10, i |-> i, eof |-> FALSE]

\* ParseEnd with the fault of leaving out the assertion
ParseEnd_unchecked(stack, res, nid) == Returned(res, nid)

\* assert not stack; return res
ParseEnd(stack, res, nid) ==
    IF stack # <<>> THEN Raised("AssertionError") ELSE Returned(res, nid)

RECURSIVE ParseLoop(_, _, _, _, _)

\* OpenForm with the tag looked up as it is read: an unrecognized tag raises
OpenForm_checking(s, i, stack, res, nid) ==
    LET j == ScanTag(s, i + 1)
    IN  IF j > Len(s) THEN Raised("IndexError")
        ELSE IF SubSeq(s, i + 1, j - 1) \notin
                    {uninitialized_, integer_, string_, buffer_, string_index_,
                     buffer_index_, package_index_, package_}
             THEN Raised("RuntimeError")
        ELSE ParseLoop(s, j, Append(stack, Sxpr(SubSeq(s, i + 1, j - 1), nid)),
                       res, nid + 1)

\* s[i] is '(': read the tag and push a new form; any run of letters and
\* underscores is taken as the tag, the empty one too
OpenForm(s, i, stack, res, nid) ==
    LET j == ScanTag(s, i + 1)
    IN  IF j > Len(s) THEN Raised("IndexError")
        ELSE ParseLoop(s, j, Append(stack, Sxpr(SubSeq(s, i + 1, j - 1), nid)),
                       res, nid + 1)

\* s[i] is ')': pop the top form into its parent, or into res
CloseForm(s, i, stack, res, nid) ==
    IF stack = <<>> THEN Raised("IndexError")
    ELSE LET sxpr == stack[Len(stack)]
             rest == SubSeq(stack, 1, Len(stack) - 1)
         IN  IF rest # <<>>
             THEN ParseLoop(s, i + 1, AppendArg(rest, sxpr), res, nid)
             ELSE ParseLoop(s, i + 1, rest, Append(res, sxpr), nid)

\* s[i] is '"': the text up to the next '"' is a str field of the top form
StringLiteral(s, i, stack, res, nid) ==
    LET j == ScanString(s, i + 1)
    IN  IF j > Len(s) THEN Raised("IndexError")
        ELSE IF stack = <<>> THEN Raised("IndexError")
        ELSE ParseLoop(s, j + 1,
                       AppendArg(stack, StrField(SubSeq(s, i + 1, j - 1))),
                       res, nid)

\* s[i] is a digit: the literal's value is an int field of the top form
IntegerLiteral(s, i, stack, res, nid) ==
    LET p == IntPrefix(s, i)
        d == ScanDigits(s, p.i, p.base, 0)
    IN  IF p.eof THEN Raised("IndexError")
        ELSE IF d.i > Len(s) THEN Raised("IndexError")
        ELSE IF stack = <<>> THEN Raised("IndexError")
        ELSE ParseLoop(s, d.i, AppendArg(stack, IntField(d.x)), res, nid)

\* the while loop of Sxpr.parse from index i (1-based), with the forms under
\* construction, the completed top-level forms and the next object identity
ParseLoop(s, i, stack, res, nid) ==
    IF i > Len(s) THEN ParseEnd(stack, res, nid)
    ELSE IF isspace(s[i]) THEN ParseLoop(s, i + 1, stack, res, nid)
    ELSE IF s[i] = "(" THEN OpenForm(s, i, stack, res, nid)
    ELSE IF s[i] = ")" THEN CloseForm(s, i, stack, res, nid)
    ELSE IF s[i] = "\"" THEN StringLiteral(s, i, stack, res, nid)
    ELSE IF isdigit(s[i]) THEN IntegerLiteral(s, i, stack, res, nid)
    ELSE Raised("RuntimeError")

\* Sxpr.parse(s), the objects it creates numbered from nid
parse(s, nid) == ParseLoop(s, 1, <<>>, <<>>, nid)

\* ------------------------------------------------------------------
\* Sxpr.__str__
\* ------------------------------------------------------------------

RECURSIVE IntStr(_)
\* str(x) for an int x >= 0: its decimal digits
IntStr(x) ==
    IF x < 10 THEN <<DigitChars[x + 1]>>
    ELSE IntStr(x \div 10) \o <<DigitChars[(x % 10) + 1]>>

RECURSIVE Join(_)
\* ' '.join(arg_strs)
Join(strs) ==
    IF strs = <<>> THEN <<>>
    ELSE IF Len(strs) = 1 THEN strs[1]
    ELSE strs[1] \o <<" ">> \o Join(Tail(strs))

RECURSIVE Sxpr_str(_)
\* ArgStr with the fault of leaving out the quotes around a str
ArgStr_unquoted(arg) ==
    IF arg.k = "str" THEN arg.v
    ELSE IF arg.k = "int" THEN IntStr(arg.v)
    ELSE Sxpr_str(arg)

\* the text of one argument: a str in quotes, anything else by str(arg)
ArgStr(arg) ==
    IF arg.k = "str" THEN <<"\"">> \o arg.v \o <<"\"">>
    ELSE IF arg.k = "int" THEN IntStr(arg.v)
    ELSE Sxpr_str(arg)

\* Sxpr.__str__
Sxpr_str(self) ==
    LET arg_strs == [j \in 1..Len(self.args) |-> ArgStr(self.args[j])]
    IN  <<"(">> \o self.fn
        \o (IF arg_strs # <<>> THEN <<" ">> \o Join(arg_strs) ELSE <<>>)
        \o <<")">>

\* ------------------------------------------------------------------
\* The comparator
\* ------------------------------------------------------------------

\* a1 == a2 for two fields: ints and strs by value and never equal to each
\* other; Sxpr defines no __eq__, so two Sxpr objects are equal only when
\* they are the same object
PyEq(a1, a2) ==
    /\ a1.k = a2.k
    /\ IF a1.k = "sx" THEN a1.id = a2.id ELSE a1.v = a2.v

\* e.args[0] == t.args[0]
first_arg_equals(e, t) ==
    IF e.args = <<>> \/ t.args = <<>> THEN "IndexError"
    ELSE IF PyEq(e.args[1], t.args[1]) THEN "True"
    ELSE "False"

type_equals(e, t) == "True"

RECURSIVE BufferLoop(_, _, _)
\* for a1, a2 in zip(e.args, t.args), from pair j on
BufferLoop(e, t, j) ==
    IF j > Len(e.args) THEN "True"
    ELSE IF ~PyEq(e.args[j], t.args[j]) THEN "False"
    ELSE BufferLoop(e, t, j + 1)

\* buffer_comparison with the fault of leaving out the comparison of the
\* lengths: it compares as many fields as e has and t has too
buffer_comparison_zip(e, t) ==
    IF \A j \in 1..Len(e.args) : j > Len(t.args) \/ PyEq(e.args[j], t.args[j])
    THEN "True"
    ELSE "False"

buffer_comparison(e, t) ==
    IF Len(e.args) # Len(t.args) THEN "False"
    ELSE BufferLoop(e, t, 1)

RECURSIVE compare_object(_, _)
RECURSIVE PackageLoop(_, _, _)
\* for a1, a2 in zip(e.args, t.args), from pair j on: the first pair that
\* does not compare True decides (a False returns, an exception propagates)
PackageLoop(e, t, j) ==
    IF j > Len(e.args) THEN "True"
    ELSE LET c == compare_object(e.args[j], t.args[j])
         IN  IF c = "True" THEN PackageLoop(e, t, j + 1) ELSE c

package_comparison(e, t) ==
    IF Len(e.args) # Len(t.args) THEN "False"
    ELSE PackageLoop(e, t, 1)

\* the comparison each tag is looked up to
COMPARISON_TABLE ==
    (uninitialized_ :> "type_equals")
    @@ (integer_ :> "first_arg_equals")
    @@ (string_ :> "first_arg_equals")
    @@ (buffer_ :> "buffer_comparison")
    @@ (string_index_ :> "type_equals")
    @@ (buffer_index_ :> "type_equals")
    @@ (package_index_ :> "type_equals")
    @@ (package_ :> "package_comparison")

\* COMPARISON_TABLE[e.fn](e, t)
Dispatch(e, t) ==
    LET f == COMPARISON_TABLE[e.fn]
    IN  IF f = "type_equals" THEN type_equals(e, t)
        ELSE IF f = "first_arg_equals" THEN first_arg_equals(e, t)
        ELSE IF f = "buffer_comparison" THEN buffer_comparison(e, t)
        ELSE package_comparison(e, t)

\* compare_object looking up the tag of t as well as the tag of e
compare_object_both(e, t) ==
    IF e.k # "sx" THEN "AttributeError"
    ELSE IF e.fn \notin DOMAIN COMPARISON_TABLE THEN "RuntimeError"
    ELSE IF t.k # "sx" THEN "AttributeError"
    ELSE IF t.fn \notin DOMAIN COMPARISON_TABLE THEN "RuntimeError"
    ELSE IF e.fn # t.fn THEN "False"
    ELSE Dispatch(e, t)

\* compare_object(e, t): "True", "False" or the exception it raises.  An int
\* or str has no attribute fn.
compare_object(e, t) ==
    IF e.k # "sx" THEN "AttributeError"
    ELSE IF e.fn \notin DOMAIN COMPARISON_TABLE THEN "RuntimeError"
    ELSE IF t.k # "sx" THEN "AttributeError"
    ELSE IF e.fn # t.fn THEN "False"
    ELSE Dispatch(e, t)

\* ------------------------------------------------------------------
\* The harness script: its state
\* ------------------------------------------------------------------

VARIABLES
    pc,               \* the statement the script is at
    expected_script,  \* the text of the //! comment lines of the ASL file
    expected,         \* Sxpr.parse(expected_script)
    tmpfile,          \* whether the file mkstemp created exists
    laiexec,          \* the interpreter subprocess: "none", "running", "terminated"
    returncode,       \* laiexec.returncode
    stdout,           \* the lines the interpreter prints, or printed
    trace,            \* Sxpr.parse(trace_script)
    n,                \* verify: items compared
    errors,           \* verify: items that did not compare equal
    out,              \* verify: the per-item lines it printed
    verified,         \* what verify returned: "None" before, "True", "False"
    exc,              \* the uncaught exception that ended the script, or "None"
    raised_at,        \* the statement that raised it, or "None"
    exit_code,        \* the exit status, -1 while the script runs
    heap              \* the number of Sxpr objects created so far

vars == <<pc, expected_script, expected, tmpfile, laiexec, returncode, stdout,
          trace, n, errors, out, verified, exc, raised_at, exit_code, heap>>

amldebug == <<"a","m","l","d","e","b","u","g",":"," ">>

\* line.startswith(prefix)
startswith(line, prefix) ==
    /\ Len(line) >= Len(prefix)
    /\ SubSeq(line, 1, Len(prefix)) = prefix

RECURSIVE TraceScript(_)
\* the loop over the lines of stdout: a line that starts with 'amldebug: '
\* adds the rest of the line and a newline to trace_script
TraceScript(lines) ==
    IF lines = <<>> THEN <<>>
    ELSE (IF startswith(lines[1], amldebug)
          THEN SubSeq(lines[1], Len(amldebug) + 1, Len(lines[1])) \o <<"\n">>
          ELSE <<>>)
         \o TraceScript(Tail(lines))

\* an uncaught exception ends the script with a traceback and status 1
Crash(e) ==
    /\ pc' = "exit"
    /\ exc' = e
    /\ raised_at' = pc
    /\ exit_code' = 1

\* sys.exit(code), or running off the end of the script (status 0)
Exit(code) ==
    /\ pc' = "exit"
    /\ exit_code' = code
    /\ UNCHANGED <<exc, raised_at>>

\* expected = Sxpr.parse(expected_script)
ParseExpected ==
    /\ pc = "parse_expected"
    /\ LET r == parse(expected_script, heap)
       IN  IF r.exc # "None"
           THEN Crash(r.exc) /\ UNCHANGED <<expected, heap>>
           ELSE /\ expected' = r.res
                /\ heap' = r.nid
                /\ pc' = "mkstemp"
                /\ UNCHANGED <<exc, raised_at, exit_code>>
    /\ UNCHANGED <<expected_script, tmpfile, laiexec, returncode, stdout, trace,
                   n, errors, out, verified>>

\* (fd, path) = tempfile.mkstemp(suffix='.aml'); os.close(fd)
Mkstemp ==
    /\ pc = "mkstemp"
    /\ tmpfile' = TRUE
    /\ pc' = "iasl"
    /\ UNCHANGED <<expected_script, expected, laiexec, returncode, stdout, trace,
                   n, errors, out, verified, exc, raised_at, exit_code,
                   heap>>

\* subprocess.check_call(['iasl', ...]): raises when the compiler fails
Compile ==
    /\ pc = "iasl"
    /\ \E ok \in BOOLEAN :
          IF ok THEN pc' = "popen" /\ UNCHANGED <<exc, raised_at, exit_code>>
          ELSE Crash("CalledProcessError")
    /\ UNCHANGED <<expected_script, expected, tmpfile, laiexec, returncode, stdout,
                   trace, n, errors, out, verified, heap>>

\* laiexec = subprocess.Popen(...): raises when the program cannot be started
Popen ==
    /\ pc = "popen"
    /\ \E ok \in BOOLEAN :
          IF ok
          THEN pc' = "communicate" /\ laiexec' = "running"
               /\ UNCHANGED <<exc, raised_at, exit_code>>
          ELSE Crash("OSError") /\ UNCHANGED laiexec
    /\ UNCHANGED <<expected_script, expected, tmpfile, returncode, stdout, trace,
                   n, errors, out, verified, heap>>

\* the statuses the interpreter ends with: success, failure, SIGABRT
ReturnCodes == {0, 1, 0 - 6}

\* (stdout, _) = laiexec.communicate(): waits for the interpreter to end and
\* yields what it printed, one of Outputs
Communicate(Outputs) ==
    /\ pc = "communicate"
    /\ laiexec' = "terminated"
    /\ \E rc \in ReturnCodes : returncode' = rc
    /\ \E lines \in Outputs : stdout' = lines
    /\ pc' = "parse_trace"
    /\ UNCHANGED <<expected_script, expected, tmpfile, trace, n, errors, out,
                   verified, exc, raised_at, exit_code,
                   heap>>

\* the loop that builds trace_script, and trace = Sxpr.parse(trace_script)
ParseTrace ==
    /\ pc = "parse_trace"
    /\ LET r == parse(TraceScript(stdout), heap)
       IN  IF r.exc # "None"
           THEN Crash(r.exc) /\ UNCHANGED <<trace, heap>>
           ELSE /\ trace' = r.res
                /\ heap' = r.nid
                /\ pc' = "verify"
                /\ UNCHANGED <<exc, raised_at, exit_code>>
    /\ UNCHANGED <<expected_script, expected, tmpfile, laiexec, returncode, stdout,
                   n, errors, out, verified>>

\* len(list(zip(expected, trace)))
ZipLen == IF Len(expected) < Len(trace) THEN Len(expected) ELSE Len(trace)

\* the line print_bad or print_good prints for one pair
BadLine(e, t) == [good |-> FALSE, e |-> Sxpr_str(e), t |-> Sxpr_str(t)]

GoodLine(e) == [good |-> TRUE, e |-> Sxpr_str(e), t |-> <<>>]

\* VerifyStep with the fault of returning at the first mismatch
VerifyStep_stopping ==
    /\ pc = "verify"
    /\ n < ZipLen
    /\ LET e == expected[n + 1]
           t == trace[n + 1]
           c == compare_object(e, t)
       IN  IF c = "True"
           THEN /\ out' = Append(out, GoodLine(e))
                /\ n' = n + 1
                /\ UNCHANGED <<errors, pc, verified, exc, raised_at, exit_code>>
           ELSE IF c = "False"
           THEN /\ out' = Append(out, BadLine(e, t))
                /\ errors' = errors + 1
                /\ n' = n + 1
                /\ verified' = "False"
                /\ pc' = "check"
                /\ UNCHANGED <<exc, raised_at, exit_code>>
           ELSE Crash(c) /\ UNCHANGED <<n, errors, out, verified>>
    /\ UNCHANGED <<expected_script, expected, tmpfile, laiexec, returncode, stdout,
                   trace, heap>>

\* VerifyStep with a comparison that raises caught and counted as a mismatch
VerifyStep_catching ==
    /\ pc = "verify"
    /\ n < ZipLen
    /\ LET e == expected[n + 1]
           t == trace[n + 1]
           c == compare_object(e, t)
       IN  IF c = "True"
           THEN /\ out' = Append(out, GoodLine(e))
                /\ n' = n + 1
                /\ UNCHANGED errors
           ELSE /\ out' = Append(out, BadLine(e, t))
                /\ errors' = errors + 1
                /\ n' = n + 1
    /\ UNCHANGED <<pc, expected_script, expected, tmpfile, laiexec, returncode,
                   stdout, trace, verified, exc, raised_at, exit_code, heap>>

\* one iteration of the loop of verify
VerifyStep ==
    /\ pc = "verify"
    /\ n < ZipLen
    /\ LET e == expected[n + 1]
           t == trace[n + 1]
           c == compare_object(e, t)
       IN  IF c = "True"
           THEN /\ out' = Append(out, GoodLine(e))
                /\ n' = n + 1
                /\ UNCHANGED <<errors, pc, exc, raised_at, exit_code>>
           ELSE IF c = "False"
           THEN /\ out' = Append(out, BadLine(e, t))
                /\ errors' = errors + 1
                /\ n' = n + 1
                /\ UNCHANGED <<pc, exc, raised_at, exit_code>>
           ELSE Crash(c) /\ UNCHANGED <<n, errors, out>>
    /\ UNCHANGED <<expected_script, expected, tmpfile, laiexec, returncode, stdout,
                   trace, verified, heap>>

\* Verdict with the fault of leaving out the test for more items in the
\* trace than expected
Verdict_unbounded ==
    IF n < Len(expected) THEN "False"
    ELSE IF errors # 0 THEN "False"
    ELSE "True"

\* what verify returns once its loop has ended
Verdict ==
    IF n < Len(expected) THEN "False"
    ELSE IF n < Len(trace) THEN "False"
    ELSE IF errors # 0 THEN "False"
    ELSE "True"

\* the end of verify: the summary line and the return
VerifyReturn ==
    /\ pc = "verify"
    /\ n = ZipLen
    /\ verified' = Verdict
    /\ pc' = "check"
    /\ UNCHANGED <<expected_script, expected, tmpfile, laiexec, returncode, stdout,
                   trace, n, errors, out, exc, raised_at, exit_code, heap>>

\* if not verify(...): sys.exit(1); if laiexec.returncode: sys.exit(1)
Finish ==
    /\ pc = "check"
    /\ IF verified # "True" THEN Exit(1)
       ELSE IF returncode # 0 THEN Exit(1)
       ELSE Exit(0)
    /\ UNCHANGED <<expected_script, expected, tmpfile, laiexec, returncode, stdout,
                   trace, n, errors, out, verified, heap>>

\* the actions of the script, the interpreter printing one of Outputs
Run(Outputs) ==
    \/ ParseExpected
    \/ Mkstemp
    \/ Compile
    \/ Popen
    \/ Communicate(Outputs)
    \/ ParseTrace
    \/ VerifyStep
    \/ VerifyReturn
    \/ Finish

\* the state the script starts in, given the text of the ASL file's //! lines
Start(script) ==
    /\ pc = "parse_expected"
    /\ expected_script = script
    /\ expected = <<>>
    /\ tmpfile = FALSE
    /\ laiexec = "none"
    /\ returncode = 0
    /\ stdout = <<>>
    /\ trace = <<>>
    /\ n = 0
    /\ errors = 0
    /\ out = <<>>
    /\ verified = "None"
    /\ exc = "None"
    /\ raised_at = "None"
    /\ exit_code = 0 - 1
    /\ heap = 0

\* ------------------------------------------------------------------
\* The inputs
\* ------------------------------------------------------------------

\* the most forms in an expected text or in a trace
MaxItems == 2

\* the most characters in a text drawn character by character
MaxChars == 5

\* the most digits after the prefix of a decimal or hexadecimal literal
MaxDigits == 2

\* the most digits after the prefix of a binary literal
MaxBinDigits == 5

\* the forms the input texts are made of
Forms ==
    <<
       <<"(","i","n","t","e","g","e","r"," ","5",")">>,   \* 1 (integer 5)
       <<"(","i","n","t","e","g","e","r",")">>,   \* 2 (integer)
       <<"(","p","a","c","k","a","g","e"," ","(","i","n","t","e","g","e","r"," ","1",")"," ","(","s","t","r","i","n","g"," ","\"","a","\"",")",")">>,   \* 3 (package (integer 1) (string 'a'))
       <<"(","p","a","c","k","a","g","e"," ","(","i","n","t","e","g","e","r"," ","1",")"," ","(","s","t","r","i","n","g"," ","\"","b","\"",")",")">>,   \* 4 (package (integer 1) (string 'b'))
       <<"(","p","a","c","k","a","g","e"," ","1",")">>,   \* 5 (package 1)
       <<"(","f","r","o","b","n","i","c","a","t","e",")">>,   \* 6 (frobnicate)
       <<"(","i","n","t","e","g","e","r"," ","6",")">>,   \* 7 (integer 6)
       <<"(","i","n","t","e","g","e","r"," ","5"," ","6",")">>,   \* 8 (integer 5 6)
       <<"(","i","n","t","e","g","e","r"," ","(","i","n","t","e","g","e","r"," ","5",")",")">>,   \* 9 (integer (integer 5))
       <<"(","s","t","r","i","n","g"," ","\"","a","\"",")">>,   \* 10 (string 'a')
       <<"(","s","t","r","i","n","g"," ","\"","b","\"",")">>,   \* 11 (string 'b')
       <<"(","s","t","r","i","n","g",")">>,   \* 12 (string)
       <<"(","u","n","i","n","i","t","i","a","l","i","z","e","d",")">>,   \* 13 (uninitialized)
       <<"(","u","n","i","n","i","t","i","a","l","i","z","e","d"," ","7",")">>,   \* 14 (uninitialized 7)
       <<"(","s","t","r","i","n","g","_","i","n","d","e","x",")">>,   \* 15 (string_index)
       <<"(","s","t","r","i","n","g","_","i","n","d","e","x"," ","3",")">>,   \* 16 (string_index 3)
       <<"(","b","u","f","f","e","r","_","i","n","d","e","x"," ","(","i","n","t","e","g","e","r"," ","1",")",")">>,   \* 17 (buffer_index (integer 1))
       <<"(","p","a","c","k","a","g","e","_","i","n","d","e","x"," ","\"","a","\"",")">>,   \* 18 (package_index 'a')
       <<"(","b","u","f","f","e","r"," ","1"," ","2",")">>,   \* 19 (buffer 1 2)
       <<"(","b","u","f","f","e","r"," ","1"," ","3",")">>,   \* 20 (buffer 1 3)
       <<"(","b","u","f","f","e","r"," ","1",")">>,   \* 21 (buffer 1)
       <<"(","b","u","f","f","e","r"," ","\"","a","\""," ","2",")">>,   \* 22 (buffer 'a' 2)
       <<"(","b","u","f","f","e","r"," ","(","i","n","t","e","g","e","r"," ","1",")",")">>,   \* 23 (buffer (integer 1))
       <<"(","b","u","f","f","e","r",")">>,   \* 24 (buffer)
       <<"(","p","a","c","k","a","g","e",")">>,   \* 25 (package)
       <<"(","p","a","c","k","a","g","e"," ","(","i","n","t","e","g","e","r"," ","1",")",")">>,   \* 26 (package (integer 1))
       <<"(","p","a","c","k","a","g","e"," ","(","f","r","o","b","n","i","c","a","t","e",")",")">>,   \* 27 (package (frobnicate))
       <<"(","p","a","c","k","a","g","e"," ","(","i","n","t","e","g","e","r"," ","2",")"," ","(","f","r","o","b","n","i","c","a","t","e",")",")">>,   \* 28 (package (integer 2) (frobnicate))
       <<"(","p","a","c","k","a","g","e"," ","(","p","a","c","k","a","g","e"," ","(","i","n","t","e","g","e","r"," ","1",")"," ","(","s","t","r","i","n","g"," ","\"","a","\"",")",")",")">>,   \* 29 (package (package (integer 1) (string 'a')))
       <<"(","p","a","c","k","a","g","e"," ","(","b","u","f","f","e","r"," ","(","i","n","t","e","g","e","r"," ","1",")",")",")">>    \* 30 (package (buffer (integer 1)))
    >>

\* the forms of the sequence checks
SeqForms == 1..6

RECURSIVE Texts(_, _)
\* every sequence of at most len elements of alphabet
Texts(alphabet, len) ==
    IF len = 0 THEN {<<>>}
    ELSE LET shorter == Texts(alphabet, len - 1)
         IN  shorter \cup {Append(x, c) : x \in {y \in shorter : Len(y) = len - 1},
                                          c \in alphabet}

RECURSIVE ExpectedScript(_)
\* the //! lines of an ASL file that hold the forms fs, one a line: the text
\* after the marker, with the blank after it and the end of the line
ExpectedScript(fs) ==
    IF fs = <<>> THEN <<>>
    ELSE <<" ">> \o Forms[fs[1]] \o <<"\n">> \o ExpectedScript(Tail(fs))

\* a line the interpreter prints that is no trace line
Banner == <<"l","a","i"," ","0","x","1">>

\* what the interpreter prints when it traces the forms fs: a banner, then
\* one amldebug line for each form
Output(fs) == <<Banner>> \o [j \in 1..Len(fs) |-> amldebug \o Forms[fs[j]]]

\* an integer form holding one literal
IntegerForm(literal) == <<"(">> \o integer_ \o <<" ">> \o literal \o <<")">>

\* the literals tried: decimal and hexadecimal ones of at most
\* MaxDigits digits, binary ones of at most MaxBinDigits digits; digits that
\* the base does not have are among them
Literals ==
    LET body == Texts({"0", "1", "2", "6", "a", "A", "F"}, MaxDigits)
        bits == Texts({"0", "1", "2"}, MaxBinDigits)
    IN  body \cup {<<"0", "x">> \o x : x \in body}
             \cup {<<"0", "b">> \o x : x \in bits}

\* the texts of the parser checks: every short text of the characters that
\* open and close forms and strings, separate tokens and start tags and
\* literals, and an integer form for each literal
ParseTexts ==
    Texts({"(", ")", "\"", " ", "a", "0", "x"}, MaxChars)
    \cup {IntegerForm(x) : x \in Literals}

\* what the interpreter prints in the parser checks
ParseOutputs ==
    { <<Banner>>,
      <<Banner, amldebug \o <<"(", ")">> >>,
      <<amldebug \o <<"(", "a", " ", "0", "x", "(", ")", "\"", "\"", ")">> >> }

\* ------------------------------------------------------------------
\* Specifications
\* ------------------------------------------------------------------

\* sequences of at most MaxItems forms on each side
SeqScripts == {ExpectedScript(fs) : fs \in Texts(SeqForms, MaxItems)}

SeqOutputs == {Output(fs) : fs \in Texts(SeqForms, MaxItems)}

Init == \E s \in SeqScripts : Start(s)

Next == Run(SeqOutputs)

Spec == Init /\ [][Next]_vars

\* one form of Forms on each side
CompareScripts == {ExpectedScript(<<f>>) : f \in DOMAIN Forms}

CompareOutputs == {Output(<<f>>) : f \in DOMAIN Forms}

InitCompare == \E s \in CompareScripts : Start(s)

NextCompare == Run(CompareOutputs)

SpecCompare == InitCompare /\ [][NextCompare]_vars

\* the expected text drawn character by character
InitParse == \E s \in ParseTexts : Start(s)

NextParse == Run(ParseOutputs)

SpecParse == InitParse /\ [][NextParse]_vars

\* ------------------------------------------------------------------
\* Definitions the properties are stated with
\* ------------------------------------------------------------------

\* the tag vocabulary
Vocabulary ==
    {uninitialized_, integer_, string_, buffer_, string_index_, buffer_index_,
     package_index_, package_}

\* the tags whose nodes are equal whenever the tags are
KindOnly == {uninitialized_, string_index_, buffer_index_, package_index_}

frobnicate_ == <<"f","r","o","b","n","i","c","a","t","e">>

Min(a, b) == IF a < b THEN a ELSE b

\* Sxpr.parse(expected_script) has returned
ParsedExpected == pc # "parse_expected" /\ raised_at # "parse_expected"

\* Sxpr.parse(trace_script) has returned
ParsedTrace ==
    \/ pc \in {"verify", "check"}
    \/ pc = "exit" /\ (verified # "None" \/ raised_at = "verify")

\* verify has returned a verdict
VerifyReturned == verified # "None"

\* an exception left verify
VerifyRaised == raised_at = "verify"

\* what comparing the i-th pair gives
Compared(i) == compare_object(expected[i], trace[i])

RECURSIVE TagsOfFields(_)
\* the tags of a node and of the nodes inside it, in the order of their
\* opening parentheses
TagsOfNode(x) == <<x.fn>> \o TagsOfFields(x.args)

TagsOfFields(fields) ==
    IF fields = <<>> THEN <<>>
    ELSE (IF fields[1].k = "sx" THEN TagsOfNode(fields[1]) ELSE <<>>)
         \o TagsOfFields(Tail(fields))

\* the i-th character of s is inside a quoted string, or closes one: an odd
\* number of quotes comes before it
Quoted(s, i) == Cardinality({j \in 1..(i - 1) : s[j] = "\""}) % 2 = 1

\* the places up to i of the character c outside quoted strings
Places(s, c, i) == {j \in 1..i : s[j] = c /\ ~Quoted(s, j)}

\* the run of letters and underscores written from index i on
WrittenTagFrom(s, i) ==
    LET stops == {j \in i..Len(s) : ~(s[j] \in Letters \/ s[j] = "_")}
        end == IF stops = {} THEN Len(s) + 1
               ELSE CHOOSE j \in stops : \A m \in stops : j <= m
    IN  SubSeq(s, i, end - 1)

\* the tags written in a text, read off its characters alone: the run of
\* letters and underscores after each '(' that is not inside a quoted string
WrittenTags(s) ==
    LET opens == Places(s, "(", Len(s))
    IN  [m \in 1..Cardinality(opens) |->
            WrittenTagFrom(s, 1 + CHOOSE j \in opens :
                                      Cardinality({q \in opens : q < j}) = m - 1)]

\* whether the parentheses of a text that are not inside quoted strings
\* match, no ')' coming before its '(', with every string and form closed
\* at the end; read off the characters alone
Balanced(s) ==
    /\ ~Quoted(s, Len(s) + 1)
    /\ \A i \in 1..Len(s) :
          Cardinality(Places(s, ")", i)) <= Cardinality(Places(s, "(", i))
    /\ Cardinality(Places(s, ")", Len(s))) = Cardinality(Places(s, "(", Len(s)))

\* the text ends inside a tag or a literal, or right after a '('
EndsMidToken(s) ==
    /\ s # <<>>
    /\ LET c == s[Len(s)]
       IN  c \in Letters \/ c \in BaseDigits[10] \/ c = "_" \/ c = "("

\* ------------------------------------------------------------------
\* Properties of verify (checked under Spec)
\* ------------------------------------------------------------------

\* every pair compares equal and the sequences have the same length
AllMatch ==
    /\ Len(expected) = Len(trace)
    /\ \A i \in 1..Len(expected) : Compared(i) = "True"

\* C1: verify reports success if and only if the two sequences have the same
\* length and every positional pair compares equal; whenever it returns with
\* the lengths different, more observed items than expected or fewer, the
\* verdict is failure, whatever the compared pairs gave.
C1_SuccessIffAllMatch ==
    (VerifyReturned \/ VerifyRaised) =>
        /\ (verified = "True") <=> AllMatch
        /\ (VerifyReturned /\ Len(trace) # Len(expected)) => verified = "False"

\* C1, its case: one expected item, two observed ones, the compared pair
\* matched, and the verdict is failure
C1_Witness ==
    /\ verified = "False"
    /\ Len(expected) = 1
    /\ Len(trace) = 2
    /\ n = 1
    /\ errors = 0
    /\ out[1].good

\* C5: a mismatch never ends the loop of verify.  Each compared pair has its
\* line, good exactly when the pair compared equal; errors counts the pairs
\* that compared unequal, a package with a differing nested element counting
\* once; when verify returns it has compared as many pairs as the shorter
\* sequence has; and the loop stops early only on a comparison that raises.
C5_NoShortCircuit ==
    /\ n = Len(out)
    /\ \A i \in 1..n : out[i].good <=> (Compared(i) = "True")
    /\ errors = Cardinality({i \in 1..n : Compared(i) = "False"})
    /\ VerifyReturned => n = Min(Len(expected), Len(trace))
    /\ VerifyRaised =>
          /\ n < Min(Len(expected), Len(trace))
          /\ Compared(n + 1) \notin {"True", "False"}

\* C5, its case: the first pair is two packages that differ in a nested
\* string, the second pair was still compared and matched, one error in all
C5_Witness ==
    /\ verified = "False"
    /\ n = 2
    /\ errors = 1
    /\ expected[1].fn = package_ /\ trace[1].fn = package_
    /\ Len(expected[1].args) = Len(trace[1].args)
    /\ ~out[1].good
    /\ out[2].good

\* C3 as stated: no exception ever leaves verify.
C3_NeverThrows == ~VerifyRaised

\* the exception the comparison of a pair of nodes must raise, by the shape
\* of the two nodes alone, or "None" where the shape does not decide
ShapeFault(e, t) ==
    IF e.fn \notin Vocabulary THEN "RuntimeError"
    ELSE IF e.fn # t.fn THEN "None"
    ELSE IF e.fn \in {integer_, string_} /\ (e.args = <<>> \/ t.args = <<>>)
         THEN "IndexError"
    ELSE IF /\ e.fn = package_
            /\ Len(e.args) = Len(t.args)
            /\ e.args # <<>>
            /\ e.args[1].k # "sx"
         THEN "AttributeError"
    ELSE "None"

\* C3 as amended: verify returns a verdict unless the comparison of a pair
\* raises, and then that exception leaves verify, verify having handled the
\* pairs before it and returning nothing.  The comparison raises RuntimeError
\* for an expected node with an unrecognized tag, IndexError for two integer
\* or two string nodes one of which has no field, and AttributeError for two
\* packages of the same length that start with a raw literal.
C3_RaisesWhatComparisonRaises ==
    /\ VerifyRaised =>
          /\ verified = "None"
          /\ n < Min(Len(expected), Len(trace))
          /\ exc = Compared(n + 1)
          /\ exc \in {"RuntimeError", "IndexError", "AttributeError"}
          /\ ShapeFault(expected[n + 1], trace[n + 1]) \in {"None", exc}
    /\ VerifyReturned =>
          \A i \in 1..Min(Len(expected), Len(trace)) :
              Compared(i) \in {"True", "False"}
    /\ \A i \in 1..n : ShapeFault(expected[i], trace[i]) = "None"

\* C3, its case: verify recorded a mismatch, then the next pair, two integer
\* nodes one of which has no field, raised IndexError
C3_Witness ==
    /\ VerifyRaised
    /\ exc = "IndexError"
    /\ n = 1
    /\ errors = 1
    /\ expected[2].fn = integer_ /\ trace[2].fn = integer_

\* C7 as stated: every node Sxpr.parse returns, at any depth, has a tag of
\* the vocabulary.
C7_ParsedTagsInVocabulary ==
    ParsedExpected =>
        \A i \in 1..Len(expected) :
            \A tag \in Range(TagsOfNode(expected[i])) : tag \in Vocabulary

\* C7 as amended: Sxpr.parse does not check tags.  A text of well-formed
\* forms parses whether or not its tags are in the vocabulary, and each node
\* carries the tag as written (looked at when parse has just returned: the
\* text and the nodes do not change afterwards).  The unrecognized tag is rejected by the
\* comparison: no pair whose expected node has an unrecognized tag is ever
\* reported as compared, and reaching one raises RuntimeError.
C7_TagCheckedByComparison ==
    /\ raised_at \notin {"parse_expected", "parse_trace"}
    /\ pc = "mkstemp" => TagsOfFields(expected) = WrittenTags(expected_script)
    /\ \A i \in 1..n : expected[i].fn \in Vocabulary
    /\ (VerifyRaised /\ expected[n + 1].fn \notin Vocabulary) =>
          exc = "RuntimeError"
    /\ VerifyReturned =>
          \A i \in 1..Min(Len(expected), Len(trace)) :
              expected[i].fn \in Vocabulary

\* C7, its case: the expected text held a frobnicate form, parse returned a
\* node with that tag, and verify raised RuntimeError on reaching it
C7_Witness ==
    /\ VerifyRaised
    /\ exc = "RuntimeError"
    /\ expected[n + 1].fn = frobnicate_
    /\ frobnicate_ \notin Vocabulary

\* C10 as stated: once the script has exited, the interpreter subprocess has
\* terminated if it was started and the file mkstemp created is gone.
C10_CleanedUpAtExit ==
    pc = "exit" => (laiexec # "running" /\ ~tmpfile)

\* ------------------------------------------------------------------
\* Properties of compare_object and of the round trip (checked under
\* SpecCompare)
\* ------------------------------------------------------------------

\* two fields are equal by raw value: two ints or two strs of the same
\* value; a nested node is equal to nothing but itself
RawEqual(a, b) ==
    /\ a.k = b.k
    /\ IF a.k = "sx" THEN a.id = b.id ELSE a.v = b.v

\* the rule of the tag of e, for two nodes of that tag
TagRule(e, t) ==
    IF e.fn \in KindOnly THEN TRUE
    ELSE IF e.fn \in {integer_, string_}
         THEN /\ e.args # <<>>
              /\ t.args # <<>>
              /\ RawEqual(e.args[1], t.args[1])
    ELSE IF e.fn = buffer_
         THEN /\ Len(e.args) = Len(t.args)
              /\ \A j \in 1..Len(e.args) : RawEqual(e.args[j], t.args[j])
    ELSE /\ Len(e.args) = Len(t.args)
         /\ \A j \in 1..Len(e.args) :
                compare_object(e.args[j], t.args[j]) = "True"

\* two nodes with tags of the vocabulary are equal by the claim's rules
EqualByRule(e, t) ==
    /\ e.fn = t.fn
    /\ TagRule(e, t)

\* C2: for two nodes whose tags are both in the vocabulary, compare_object
\* is true if and only if the tags are the same and the rule of the tag
\* holds: nothing more for uninitialized and the three index tags, equal
\* first fields for integer and string, the same number of fields pairwise
\* equal by raw value for buffer, the same number of fields pairwise equal by
\* compare_object for package.
C2_TrueIffTagRule ==
    /\ \A i \in 1..n :
          (expected[i].fn \in Vocabulary /\ trace[i].fn \in Vocabulary) =>
              (out[i].good <=> EqualByRule(expected[i], trace[i]))
    /\ (/\ VerifyRaised
        /\ expected[n + 1].fn \in Vocabulary
        /\ trace[n + 1].fn \in Vocabulary) =>
           ~EqualByRule(expected[n + 1], trace[n + 1])

\* C2, its case: two uninitialized nodes, one with a field and one without,
\* compared equal
C2_Witness ==
    /\ n = 1
    /\ out[1].good
    /\ expected[1].fn = uninitialized_
    /\ expected[1].args = <<>>
    /\ trace[1].args # <<>>

\* C4 as stated: compare_object gives no boolean for a pair one of whose
\* tags is outside the vocabulary, so no such pair is reported as compared.
C4_UnknownTagOnEitherSideRaises ==
    \A i \in 1..n :
        expected[i].fn \in Vocabulary /\ trace[i].fn \in Vocabulary

\* C4 as amended: compare_object raises the unknown-tag RuntimeError when
\* the expected node's tag is outside the vocabulary, and only for an
\* unrecognized tag on the expected side, at the top or nested in a package;
\* when the expected tag is recognized and only the observed node's tag is
\* not, it returns False.
C4_UnknownExpectedTagRaises ==
    /\ \A i \in 1..n :
          /\ expected[i].fn \in Vocabulary
          /\ trace[i].fn \notin Vocabulary => ~out[i].good
    /\ VerifyRaised =>
          /\ expected[n + 1].fn \notin Vocabulary => exc = "RuntimeError"
          /\ exc = "RuntimeError" =>
                \E tag \in Range(TagsOfNode(expected[n + 1])) :
                    tag \notin Vocabulary
    /\ VerifyReturned =>
          \A i \in 1..Min(Len(expected), Len(trace)) :
              expected[i].fn \in Vocabulary

\* C4, its case: an integer node expected, a frobnicate node observed, and
\* the pair reported as a mismatch
C4_Witness ==
    /\ n = 1
    /\ ~out[1].good
    /\ expected[1].fn = integer_
    /\ trace[1].fn = frobnicate_
    /\ frobnicate_ \notin Vocabulary

\* the node's text, parsed again
Reparsed(e) == parse(Sxpr_str(e), heap)

RECURSIVE SameText(_, _)
\* two fields hold the same data: the same kind, the same value, and for
\* nodes the same tag and pairwise the same fields
SameText(a, b) ==
    /\ a.k = b.k
    /\ IF a.k # "sx" THEN a.v = b.v
       ELSE /\ a.fn = b.fn
            /\ Len(a.args) = Len(b.args)
            /\ \A j \in 1..Len(a.args) : SameText(a.args[j], b.args[j])

RECURSIVE ComparesByValue(_)
\* the comparison of a field with a copy of it looks only at values: a node
\* with a tag of the vocabulary whose rule meets no nested node by identity
\* and no missing field
ComparesByValue(e) ==
    /\ e.k = "sx"
    /\ e.fn \in Vocabulary
    /\ IF e.fn \in KindOnly THEN TRUE
       ELSE IF e.fn \in {integer_, string_}
            THEN e.args # <<>> /\ e.args[1].k # "sx"
       ELSE IF e.fn = buffer_
            THEN \A j \in 1..Len(e.args) : e.args[j].k # "sx"
       ELSE \A j \in 1..Len(e.args) : ComparesByValue(e.args[j])

\* C8 as stated: for every node Sxpr.parse returned whose tag is in the
\* vocabulary, parsing its text yields exactly one node, and compare_object
\* of the node and that one is true.
C8_RoundTripComparesEqual ==
    ParsedExpected =>
        \A i \in 1..Len(expected) :
            expected[i].fn \in Vocabulary =>
                LET r == Reparsed(expected[i])
                IN  /\ r.exc = "None"
                    /\ Len(r.res) = 1
                    /\ compare_object(expected[i], r.res[1]) = "True"

\* C8 as amended: parsing the text of a node Sxpr.parse returned yields
\* exactly one node, with the same tag and the same fields throughout.  For
\* a tag of the vocabulary compare_object of the two is true if and only if
\* the comparison looks only at values: always for uninitialized and the
\* index tags; for integer and string when the first field exists and is a
\* raw literal; for buffer when every field is a raw literal; for package
\* when every field is a node for which this holds in turn.
C8_RoundTripByValue ==
    ParsedExpected =>
        \A i \in 1..Len(expected) :
            LET r == Reparsed(expected[i])
            IN  /\ r.exc = "None"
                /\ Len(r.res) = 1
                /\ SameText(expected[i], r.res[1])
                /\ expected[i].fn \in Vocabulary =>
                      (compare_object(expected[i], r.res[1]) = "True"
                          <=> ComparesByValue(expected[i]))

\* C8, its case: a package of an integer and a string node was parsed, and
\* it compares equal to the node its text parses to
C8_Witness ==
    /\ ParsedExpected
    /\ Len(expected) = 1
    /\ expected[1].fn = package_
    /\ Len(expected[1].args) = 2
    /\ ComparesByValue(expected[1])
    /\ compare_object(expected[1], Reparsed(expected[1]).res[1]) = "True"

\* ------------------------------------------------------------------
\* Properties of Sxpr.parse (checked under SpecParse)
\* ------------------------------------------------------------------

\* C6: Sxpr.parse returns only for a text whose nesting is balanced.  When
\* it returns, every form and every quoted string of the text is closed, no
\* ')' came without its '(' and the text does not end inside a token; when
\* it raises, nothing of what it had parsed is kept.
C6_ReturnsOnlyBalanced ==
    /\ ParsedExpected =>
          /\ Balanced(expected_script)
          /\ ~EndsMidToken(expected_script)
    /\ raised_at = "parse_expected" => (expected = <<>> /\ heap = 0)
    /\ ParsedTrace => Balanced(TraceScript(stdout))
    /\ raised_at = "parse_trace" => trace = <<>>

\* C6, its case: the text opens a form that it never closes, and parse
\* raised
C6_Witness ==
    /\ raised_at = "parse_expected"
    /\ exc = "AssertionError"
    /\ ~Balanced(expected_script)
    /\ expected_script[1] = "("

\* the value of each digit, upper or lower case
DigitOf ==
    [c \in {"0", "1", "2", "3", "4", "5", "6", "7", "8", "9", "a", "b", "c",
            "d", "e", "f", "A", "B", "C", "D", "E", "F"} |->
        CASE c = "0" -> 0 [] c = "1" -> 1 [] c = "2" -> 2 [] c = "3" -> 3
          [] c = "4" -> 4 [] c = "5" -> 5 [] c = "6" -> 6 [] c = "7" -> 7
          [] c = "8" -> 8 [] c = "9" -> 9
          [] c \in {"a", "A"} -> 10 [] c \in {"b", "B"} -> 11
          [] c \in {"c", "C"} -> 12 [] c \in {"d", "D"} -> 13
          [] c \in {"e", "E"} -> 14 [] c \in {"f", "F"} -> 15]

RECURSIVE Power(_, _)
Power(base, k) == IF k = 0 THEN 1 ELSE base * Power(base, k - 1)

RECURSIVE Positional(_, _)
\* the positional value of a run of digits in a base
Positional(digits, base) ==
    IF digits = <<>> THEN 0
    ELSE DigitOf[digits[1]] * Power(base, Len(digits) - 1)
         + Positional(Tail(digits), base)

\* the text is an integer form holding one token
IsIntegerForm(s) ==
    /\ Len(s) > Len(integer_) + 3
    /\ s = IntegerForm(SubSeq(s, Len(integer_) + 3, Len(s) - 1))

LiteralIn(s) == SubSeq(s, Len(integer_) + 3, Len(s) - 1)

\* the base the prefix of a literal selects, and the digits after the prefix
BaseOf(lit) ==
    IF Len(lit) >= 2 /\ lit[1] = "0" /\ lit[2] = "x" THEN 16
    ELSE IF Len(lit) >= 2 /\ lit[1] = "0" /\ lit[2] = "b" THEN 2
    ELSE 10

DigitsOf(lit) == IF BaseOf(lit) = 10 THEN lit ELSE SubSeq(lit, 3, Len(lit))

\* an integer literal: at least one digit, each a digit of the base
IsLiteral(lit) ==
    /\ DigitsOf(lit) # <<>>
    /\ \A j \in 1..Len(DigitsOf(lit)) :
          /\ DigitsOf(lit)[j] \in DOMAIN DigitOf
          /\ DigitOf[DigitsOf(lit)[j]] < BaseOf(lit)

\* C9: the field an integer literal parses to is the int that is the
\* positional value of its digits, in base 16 after the prefix 0x, in base 2
\* after 0b and in base 10 otherwise, upper-case and lower-case hexadecimal
\* digits alike, and nothing else; 0x1A, 0b11010 and 26 all give 26.
C9_LiteralValue ==
    (IsIntegerForm(expected_script) /\ IsLiteral(LiteralIn(expected_script))) =>
        LET lit == LiteralIn(expected_script)
        IN  /\ raised_at # "parse_expected"
            /\ ParsedExpected =>
                  /\ Len(expected) = 1
                  /\ expected[1].fn = integer_
                  /\ expected[1].args =
                        <<[k |-> "int",
                           v |-> Positional(DigitsOf(lit), BaseOf(lit))]>>
                  /\ lit \in {<<"0","x","1","A">>, <<"0","b","1","1","0","1","0">>,
                              <<"2","6">>} => expected[1].args[1].v = 26

\* C9, its case: the literal 0b11010 was parsed, to 26
C9_Witness ==
    /\ expected_script = IntegerForm(<<"0","b","1","1","0","1","0">>)
    /\ ParsedExpected
    /\ expected[1].args[1].v = 26

====
